---- MODULE Spec2Model ----
(***************************************************************************)
(* CodeSense (VS Code extension): pylint diagnostics on save and a         *)
(* model-driven repair command.                                            *)
(*                                                                         *)
(* The repository holds three versions of the extension:                   *)
(*   "current"  : src/unnamed/part_000       (two repair stages)           *)
(*   "v1"       : src/extension-1.js         (three repair stages)         *)
(*   "original" : src/extension-original.js  (one repair stage)            *)
(* The variable build says which version a behaviour runs.                 *)
(*                                                                         *)
(* Text is a sequence of characters, each character a one-character        *)
(* string.  The fixed wording of a prompt template that holds no           *)
(* placeholder is kept as one opaque element of the sequence.              *)
(***************************************************************************)
EXTENDS Integers, Sequences, FiniteSets, TLC

VARIABLES
  build,                \* which version of the extension runs
  linterOutput,         \* the module's variable linterOutput
  diagnosticCollection, \* the diagnostics held for each document uri
  activeTextEditor,     \* vscode.window.activeTextEditor, or NoEditor
  runs,                 \* the calls of runLinter on a Python document
  errorMessages,        \* the texts shown with showErrorMessage, in order
  createLog,            \* history: the calls of createDiagnostics, in order
  bufferFrom,           \* history: the run of each chunk now in linterOutput
  repairs,              \* the invocations of generateFixedCodeHandler
  fin,                  \* input of the pure function under check
  fout                  \* its result, or NotRun

sysvars ==
  <<linterOutput, diagnosticCollection, activeTextEditor, runs, errorMessages,
    createLog, bufferFrom, repairs>>

vars == <<build, sysvars, fin, fout>>

Builds == {"current", "v1", "original"}

NotRun == [fn |-> "none"]

\* ---------------------------------------------------------------- bounds

\* Most segments concatenated into one input text of a pure function.
MaxSegs == 4

\* ------------------------------------------------------------------ text

Max(S) == CHOOSE x \in S : \A y \in S : y <= x

Min(S) == CHOOSE x \in S : \A y \in S : x <= y

\* All concatenations of at most n segments of S.
RECURSIVE SegTexts(_, _)
SegTexts(S, n) ==
  IF n = 0 THEN {<<>>}
  ELSE LET prev == SegTexts(S, n - 1)
       IN prev \cup {t \o s : t \in prev, s \in S}

\* What String.prototype.trim removes (the characters the model's texts use).
WhiteSpace == {" ", "\t", "\n", "\r"}

\* A mutant of Trim: at most one white-space character is taken from each end.
Trim_once(s) ==
  LET a == IF s /= <<>> /\ Head(s) \in WhiteSpace THEN Tail(s) ELSE s
  IN IF a /= <<>> /\ a[Len(a)] \in WhiteSpace THEN SubSeq(a, 1, Len(a) - 1)
     ELSE a

\* String.prototype.trim.
Trim(s) ==
  LET keep == {i \in 1..Len(s) : s[i] \notin WhiteSpace}
  IN IF keep = {} THEN <<>> ELSE SubSeq(s, Min(keep), Max(keep))

\* The 0-based positions at which pat occurs in s.
Occurrences(s, pat) ==
  {i \in 0..(Len(s) - Len(pat)) : SubSeq(s, i + 1, i + Len(pat)) = pat}

\* String.prototype.lastIndexOf: 0-based, -1 when pat does not occur.
LastIndexOf(s, pat) ==
  IF Occurrences(s, pat) = {} THEN -1 ELSE Max(Occurrences(s, pat))

\* String.prototype.indexOf: 0-based, -1 when pat does not occur.
IndexOf(s, pat) ==
  IF Occurrences(s, pat) = {} THEN -1 ELSE Min(Occurrences(s, pat))

\* String.prototype.substring(start), start 0-based.
Substring(s, start) == SubSeq(s, start + 1, Len(s))

\* ------------------------------------------------------------- documents

\* The documents of the workspace: a Python file and a file of another
\* language.
PyDocs == {"a.py"}

Docs == PyDocs \cup {"n.md"}

\* document.languageId
LanguageId(d) == IF d \in PyDocs THEN "python" ELSE "markdown"

\* The untitled documents the repair command opens, by invocation.
Untitled == <<"Untitled-1", "Untitled-2", "Untitled-3", "Untitled-4">>

Uris == Docs \cup {Untitled[k] : k \in 1..Len(Untitled)}

\* No focused editor: activeTextEditor is undefined.
NoEditor == "undefined"

\* The state when the extension has been loaded: lines 6-8.
SysInit ==
  /\ linterOutput = <<>>
  /\ diagnosticCollection = [u \in Uris |-> <<>>]
  /\ activeTextEditor = NoEditor
  /\ runs = <<>>
  /\ errorMessages = <<>>
  /\ createLog = <<>>
  /\ bufferFrom = <<>>
  /\ repairs = <<>>

\* ------------------------------------------------------ ResponseExtractor

\* The literal "Output:".
Marker == <<"O", "u", "t", "p", "u", "t", ":">>

\* A mutant of extractLastOutput: slices after the FIRST marker.
extractLastOutput_first(result) ==
  LET firstOutputIndex == IndexOf(result, Marker)
  IN IF firstOutputIndex = -1 THEN Trim(result)
     ELSE Trim(Substring(result, firstOutputIndex + Len(Marker)))

\* extractLastOutput of the current version.
extractLastOutput(result) ==
  LET lastOutputIndex == LastIndexOf(result, Marker)
  IN IF lastOutputIndex = -1 THEN Trim(result)
     ELSE Trim(Substring(result, lastOutputIndex + Len(Marker)))

\* extractLastOutput of the original version: "" when the marker is absent.
extractLastOutput_original(result) ==
  LET lastOutputIndex == LastIndexOf(result, Marker)
  IN IF lastOutputIndex = -1 THEN <<>>
     ELSE Trim(Substring(result, lastOutputIndex + Len(Marker)))

\* The extractor of each version that has one.
Extractor(b, result) ==
  IF b = "original" THEN extractLastOutput_original(result)
  ELSE extractLastOutput(result)

\* Segments of the response texts the extractor is tried on.
ExtractSegs ==
  {Marker, <<" ">>, <<"A">>, <<"B">>, <<"\n">>, <<"O", "u", "t">>}

\* "noise Output: A Output: B"
NoiseAB ==
  <<"n", "o", "i", "s", "e", " ">> \o Marker \o <<" ", "A", " ">>
    \o Marker \o <<" ", "B">>

ExtractInputs == SegTexts(ExtractSegs, MaxSegs) \cup {NoiseAB}

\* --------------------------------------------- specification: extractor

InitExtract ==
  /\ SysInit
  /\ build \in {"current", "original"}
  /\ fin \in ExtractInputs
  /\ fout = NotRun

\* One call of the version's extractLastOutput on the input.
ApplyExtract ==
  /\ fout = NotRun
  /\ fout' = [fn |-> "extractLastOutput", v |-> Extractor(build, fin)]
  /\ UNCHANGED <<build, fin, sysvars>>

NextExtract == ApplyExtract

SpecExtract == InitExtract /\ [][NextExtract]_vars

\* C3 as stated: for every response text the extractor returns the trimmed text
\* after the LAST "Output:" when the marker occurs, and the whole response
\* trimmed when it does not (a markerless response is never dropped).
C3_ExtractLastOrWhole ==
  fout.fn = "extractLastOutput" =>
    IF \E k \in 0..(Len(fin) - Len(Marker)) :
         SubSeq(fin, k + 1, k + Len(Marker)) = Marker
    THEN \E k \in 0..(Len(fin) - Len(Marker)) :
           /\ SubSeq(fin, k + 1, k + Len(Marker)) = Marker
           /\ \A j \in (k + 1)..(Len(fin) - Len(Marker)) :
                SubSeq(fin, j + 1, j + Len(Marker)) /= Marker
           /\ fout.v = Trim(SubSeq(fin, k + Len(Marker) + 1, Len(fin)))
    ELSE fout.v = Trim(fin)

\* C3 on the current version alone (src/unnamed/part_000), where it holds.
C3_CurrentOnly == build = "current" => C3_ExtractLastOrWhole

\* C3 on responses that hold the marker, in both versions.
C3_WithMarker == Occurrences(fin, Marker) /= {} => C3_ExtractLastOrWhole

\* The original version has returned "" for a markerless response with text.
C3_DroppedMarkerless ==
  /\ build = "original"
  /\ fout.fn = "extractLastOutput"
  /\ Occurrences(fin, Marker) = {}
  /\ Trim(fin) /= <<>>
  /\ fout.v = <<>>

\* ------------------------------------ specification: extractor, twice

\* The version's extractLastOutput called on the input and again on what it
\* returned.
ApplyExtractTwice ==
  /\ fout = NotRun
  /\ fout' = [fn |-> "extractLastOutput twice",
              once |-> Extractor(build, fin),
              twice |-> Extractor(build, Extractor(build, fin))]
  /\ UNCHANGED <<build, fin, sysvars>>

NextExtractTwice == ApplyExtractTwice

SpecExtractTwice == InitExtract /\ [][NextExtractTwice]_vars

\* C16: for every text s without the marker "Output:",
\* extract(extract(s)) = extract(s), in both versions of the extractor.
C16_IdempotentWithoutMarker ==
  (fout /= NotRun /\ Occurrences(fin, Marker) = {}) => fout.twice = fout.once

\* A markerless text with white space around its content was extracted twice
\* by the current version, and the result still holds content.
C16_Witness ==
  /\ fout /= NotRun
  /\ build = "current"
  /\ Occurrences(fin, Marker) = {}
  /\ Len(fin) >= 3
  /\ fin[1] \in WhiteSpace /\ fin[2] \in WhiteSpace
  /\ fout.once /= fin
  /\ fout.twice = fout.once
  /\ fout.twice /= <<>>

\* --------------------------------------------------------- PromptTemplate

\* The placeholder "{code}".
CodeSlot == <<"{", "c", "o", "d", "e", "}">>

\* The placeholder "{linterOutput}".
LintSlot ==
  <<"{", "l", "i", "n", "t", "e", "r", "O", "u", "t", "p", "u", "t", "}">>

\* GetSubstitution of String.prototype.replace for a string pattern: in the
\* replacement text "$$" stands for "$", "$&" for the matched text, "$`" for
\* the text before the match and "$'" for the text after it.
RECURSIVE GetSubstitution(_, _, _, _)
GetSubstitution(repl, matched, before, after) ==
  IF repl = <<>> THEN <<>>
  ELSE IF Len(repl) >= 2 /\ repl[1] = "$" /\ repl[2] \in {"$", "&", "`", "'"}
       THEN (CASE repl[2] = "$" -> <<"$">>
               [] repl[2] = "&" -> matched
               [] repl[2] = "`" -> before
               [] repl[2] = "'" -> after)
            \o GetSubstitution(SubSeq(repl, 3, Len(repl)), matched, before, after)
       ELSE <<repl[1]>> \o GetSubstitution(Tail(repl), matched, before, after)

\* String.prototype.replace(pat, repl), pat a string: the first occurrence only.
Replace(s, pat, repl) ==
  LET pos == IndexOf(s, pat)
  IN IF pos = -1 THEN s
     ELSE LET before == SubSeq(s, 1, pos)
              after == SubSeq(s, pos + Len(pat) + 1, Len(s))
          IN before \o GetSubstitution(repl, pat, before, after) \o after

\* An argument left out of a call (no text: its one element is no character).
Omitted == <<"undefined">>

\* The default value of runOllamaPrompt's parameter linterOutput.
DefaultLint(arg) == IF arg = Omitted THEN <<>> ELSE arg

\* A mutant of FormatPrompt: fills the slots in the other order.
FormatPrompt_lintFirst(prompt, code, lint) ==
  Replace(Replace(prompt, LintSlot, DefaultLint(lint)), CodeSlot, code)

\* formattedPrompt of runOllamaPrompt.
FormatPrompt(prompt, code, lint) ==
  Replace(Replace(prompt, CodeSlot, code), LintSlot, DefaultLint(lint))

\* PYLINT_FIX_PROMPT of the current version.
PYLINT_FIX_PROMPT ==
  <<"[INST] <<SYS>>\nYou are a code transformation agent. Your task is to fix syntax errors in the provided Python code based on the given Pylint output. Output only the corrected Python code with no explanations, no commentary, and no Markdown formatting.\n<</SYS>>\n\nPython code:\n">>
    \o CodeSlot \o <<"\n\nPylint output:\n">> \o LintSlot
    \o <<"\n\nInstructions:\n- Output only the corrected Python code.\n[/INST]">>

\* LOGIC_FIX_PROMPT of the current version.
LOGIC_FIX_PROMPT ==
  <<"[INST] <<SYS>>\nYou are a strict Python code fixer. The input Python code always contains at least one logical or syntax error. You must identify and correct these. Output only the corrected Python code, with NO extra text or formatting.\n<</SYS>>\n\n# Example:\nInput:\ndef is_even(n):\n    return n % 2 == 1\n\nOutput:\ndef is_even(n):\n    return n % 2 == 0\n\n---\n\nInput:\n">>
    \o CodeSlot \o <<"\n\nOutput:\n[/INST]">>

\* "x={code} y={linterOutput}"
XYTemplate == <<"x", "=">> \o CodeSlot \o <<" ", "y", "=">> \o LintSlot

\* "{linterOutput}|{code}": the placeholders in the other order.
YXTemplate == LintSlot \o <<"|">> \o CodeSlot

RenderTemplates == {PYLINT_FIX_PROMPT, XYTemplate, YXTemplate}

\* Most segments concatenated into one binding text.
MaxBindSegs == 2

\* Segments of the binding texts.
BindSegs ==
  {CodeSlot, LintSlot, <<"1">>, <<"2">>, <<"$", "&">>, <<"$", "$">>}

BindTexts == SegTexts(BindSegs, MaxBindSegs)

\* ---------------------------------------------- specification: rendering

InitRender ==
  /\ SysInit
  /\ build = "current"
  /\ fin \in [prompt : RenderTemplates, code : BindTexts,
              lint : BindTexts \cup {Omitted}]
  /\ fout = NotRun

\* The two replace calls of runOllamaPrompt.
ApplyRender ==
  /\ fout = NotRun
  /\ fout' = [fn |-> "FormatPrompt",
              v |-> FormatPrompt(fin.prompt, fin.code, fin.lint)]
  /\ UNCHANGED <<build, fin, sysvars>>

NextRender == ApplyRender

SpecRender == InitRender /\ [][NextRender]_vars

\* The template with its own two placeholders replaced by the bindings.
OwnSlotsFilled(prompt, code, lint) ==
  LET c == IndexOf(prompt, CodeSlot)
      l == IndexOf(prompt, LintSlot)
  IN IF c < l
     THEN SubSeq(prompt, 1, c) \o code
            \o SubSeq(prompt, c + Len(CodeSlot) + 1, l) \o lint
            \o SubSeq(prompt, l + Len(LintSlot) + 1, Len(prompt))
     ELSE SubSeq(prompt, 1, l) \o lint
            \o SubSeq(prompt, l + Len(LintSlot) + 1, c) \o code
            \o SubSeq(prompt, c + Len(CodeSlot) + 1, Len(prompt))

\* C4 as stated: rendering a template with one {code} and one {linterOutput}
\* placeholder replaces the template's own placeholders by the bindings
\* verbatim (an omitted linterOutput as ""), for every binding text.
C4_RenderVerbatim ==
  fout.fn = "FormatPrompt" =>
    fout.v = OwnSlotsFilled(fin.prompt, fin.code,
                            IF fin.lint = Omitted THEN <<>> ELSE fin.lint)

\* C4 on binding texts that hold no "{" and no "$", where it holds.
C4_PlainBindings ==
  (/\ \A i \in 1..Len(fin.code) : fin.code[i] \notin {"{", "$"}
   /\ fin.lint /= Omitted =>
        \A i \in 1..Len(fin.lint) : fin.lint[i] \notin {"{", "$"})
    => C4_RenderVerbatim

\* ------------------------------------------------------- DiagnosticParser

Digits == {"0", "1", "2", "3", "4", "5", "6", "7", "8", "9"}

\* [A-Z]
Upper ==
  {"A", "B", "C", "D", "E", "F", "G", "H", "I", "J", "K", "L", "M",
   "N", "O", "P", "Q", "R", "S", "T", "U", "V", "W", "X", "Y", "Z"}

\* The characters "." of a regular expression does not match.
LineTerminators == {"\n", "\r"}

DigitValue ==
  "0" :> 0 @@ "1" :> 1 @@ "2" :> 2 @@ "3" :> 3 @@ "4" :> 4 @@
  "5" :> 5 @@ "6" :> 6 @@ "7" :> 7 @@ "8" :> 8 @@ "9" :> 9

\* parseInt(text, 10) of a text of digits.
RECURSIVE ParseInt(_)
ParseInt(text) ==
  IF text = <<>> THEN 0
  ELSE ParseInt(SubSeq(text, 1, Len(text) - 1)) * 10 + DigitValue[text[Len(text)]]

\* String.prototype.split("\n").
RECURSIVE Split(_)
Split(s) ==
  LET nl == {i \in 1..Len(s) : s[i] = "\n"}
  IN IF nl = {} THEN <<s>>
     ELSE <<SubSeq(s, 1, Min(nl) - 1)>> \o Split(SubSeq(s, Min(nl) + 1, Len(s)))

\* The last position of the longest run of characters of S that starts at
\* from (from - 1 when the run is empty): a greedy quantifier.
RunEndIn(line, from, S) ==
  Max({j \in (from - 1)..Len(line) : \A k \in from..j : line[k] \in S})

\* The same for the characters outside S.
RunEndNotIn(line, from, S) ==
  Max({j \in (from - 1)..Len(line) : \A k \in from..j : line[k] \notin S})

NoMatch == [ok |-> FALSE]

\* One attempt of /:(\d+):(\d+):\s([A-Z]\d{4}):\s(.+)/ at position i (1-based).
\* \d+ is followed by ":" and \d{4} by ":", so no shorter run can match.
MatchAt(line, i) ==
  LET At(k) == IF k \in 1..Len(line) THEN line[k] ELSE "end"
      a == RunEndIn(line, i + 1, Digits)       \* end of (\d+), the line
      b == RunEndIn(line, a + 2, Digits)       \* end of (\d+), the column
      m == RunEndNotIn(line, b + 10, LineTerminators)   \* end of (.+)
  IN IF /\ At(i) = ":"
        /\ a >= i + 1
        /\ At(a + 1) = ":"
        /\ b >= a + 2
        /\ At(b + 1) = ":"
        /\ At(b + 2) \in WhiteSpace
        /\ At(b + 3) \in Upper
        /\ \A k \in (b + 4)..(b + 7) : At(k) \in Digits
        /\ At(b + 8) = ":"
        /\ At(b + 9) \in WhiteSpace
        /\ m >= b + 10
     THEN [ok |-> TRUE,
           lineNo |-> SubSeq(line, i + 1, a),
           colNo |-> SubSeq(line, a + 2, b),
           errorCode |-> SubSeq(line, b + 3, b + 7),
           message |-> SubSeq(line, b + 10, m)]
     ELSE NoMatch

\* A mutant of Match: the pattern anchored at the start of the line.
Match_anchored(line) == IF line = <<>> THEN NoMatch ELSE MatchAt(line, 1)

\* line.match(...): the leftmost position at which the pattern matches.
Match(line) ==
  LET starts == {i \in 1..Len(line) : MatchAt(line, i).ok}
  IN IF starts = {} THEN NoMatch ELSE MatchAt(line, Min(starts))

\* A mutant of Severity: only "E" is an error.
Severity_onlyE(errorCode) ==
  IF errorCode[1] = "E" THEN "Error"
  ELSE IF errorCode[1] = "I" THEN "Information"
  ELSE "Warning"

\* The severity chosen from the error code's first letter.
Severity(errorCode) ==
  IF errorCode[1] = "F" \/ errorCode[1] = "E" THEN "Error"
  ELSE IF errorCode[1] = "I" THEN "Information"
  ELSE "Warning"

Null == [null |-> TRUE]

\* A mutant of ParseLine: the message kept as captured.
ParseLine_untrimmed(line) ==
  LET match == Match(line)
  IN IF match.ok
     THEN [line |-> ParseInt(match.lineNo),
           column |-> ParseInt(match.colNo),
           message |-> match.message,
           severity |-> Severity(match.errorCode)]
     ELSE Null

\* The callback of outputLines.map: the record of a line, or null.
ParseLine(line) ==
  LET match == Match(line)
  IN IF match.ok
     THEN [line |-> ParseInt(match.lineNo),
           column |-> ParseInt(match.colNo),
           message |-> Trim(match.message),
           severity |-> Severity(match.errorCode)]
     ELSE Null

\* outputLines of createDiagnostics.
OutputLines(output) == Split(Trim(output))

\* outputLines.map(...)
MappedLines(output) ==
  [k \in 1..Len(OutputLines(output)) |-> ParseLine(OutputLines(output)[k])]

IsRecord(r) == r /= Null

\* A mutant of ParsedErrors: the records in reverse order.
ParsedErrors_reversed(output) ==
  LET kept == SelectSeq(MappedLines(output), IsRecord)
  IN [k \in 1..Len(kept) |-> kept[Len(kept) + 1 - k]]

\* parsedErrors of createDiagnostics: .filter(Boolean) drops the nulls.
ParsedErrors(output) == SelectSeq(MappedLines(output), IsRecord)

\* ------------------------------------------------ analysis-output inputs

\* Most lines of one analysis output handed to the parser.
MaxLines == 2

DigitChar == <<"0", "1", "2", "3", "4", "5", "6", "7", "8", "9">>

\* "%d" of a natural number.
RECURSIVE FormatInt(_)
FormatInt(n) ==
  IF n < 10 THEN <<DigitChar[n + 1]>>
  ELSE FormatInt(n \div 10) \o <<DigitChar[(n % 10) + 1]>>

\* "%04d" of a natural number below 10000.
Format04(n) ==
  LET d == FormatInt(n)
  IN [k \in 1..(4 - Len(d)) |-> "0"] \o d

\* A path in which the pattern itself matches: ":9:9: W0009: p".
PathWithMatch ==
  <<":", "9", ":", "9", ":", " ", "W", "0", "0", "0", "9", ":", " ", "p">>

\* The line "<path>:<line>:<column>: <L><D4>: <M>" is described by its parts.
BaseLine ==
  [kind |-> "diag", path |-> <<"a", ".", "p", "y">>, line |-> 1, column |-> 0,
   letter |-> "E", d4 |-> 1, msg |-> <<"m">>]

\* Lines of the shape, each differing from BaseLine in one part.
DiagLines ==
  {[BaseLine EXCEPT !.path = p] :
      p \in {<<>>, <<"d", ":", "1">>, <<"C", ":", "\\", "a">>, PathWithMatch}}
  \cup {[BaseLine EXCEPT !.line = n] : n \in {0, 12}}
  \cup {[BaseLine EXCEPT !.column = n] : n \in {7, 10}}
  \cup {[BaseLine EXCEPT !.letter = c] : c \in {"F", "I", "W", "C", "Z"}}
  \cup {[BaseLine EXCEPT !.d4 = n] : n \in {0, 304, 9999}}
  \cup {[BaseLine EXCEPT !.msg = m] :
          m \in {<<>>, <<" ">>, <<" ", "m", " ">>, <<"m", " ", ":", "x">>,
                 <<"m", "\r">>}}

\* Lines of other shapes, as pylint prints them or nearly of the shape.
OtherTexts ==
  {<<>>,
   <<"r", "a", "n", "d", "o", "m">>,
   <<"*", "*", " ", "M", "o", "d", "u", "l", "e", " ", "a">>,
   <<"a", ":", "1", ":", "0", ":", " ", "e", "0", "0", "0", "1", ":", " ", "m">>,
   <<"a", ":", "1", ":", "0", ":", " ", "E", "0", "0", "1", ":", " ", "m">>,
   <<"a", ":", "1", ":", " ", "E", "0", "0", "0", "1", ":", " ", "m">>,
   <<"a", ":", "1", ":", "0", ":", "E", "0", "0", "0", "1", ":", " ", "m">>}

OtherLines == {[kind |-> "other", text |-> t] : t \in OtherTexts}

LineDescs == DiagLines \cup OtherLines

\* The text of a described line.
LineText(d) ==
  IF d.kind = "other" THEN d.text
  ELSE d.path \o <<":">> \o FormatInt(d.line) \o <<":">> \o FormatInt(d.column)
         \o <<":", " ", d.letter>> \o Format04(d.d4) \o <<":", " ">> \o d.msg

\* The lines joined by "\n".
RECURSIVE JoinLines(_)
JoinLines(ds) ==
  IF ds = <<>> THEN <<>>
  ELSE IF Len(ds) = 1 THEN LineText(ds[1])
  ELSE LineText(ds[1]) \o <<"\n">> \o JoinLines(Tail(ds))

\* All sequences over S of length at most n.
SeqsUpTo(S, n) == UNION {[1..k -> S] : k \in 0..n}

\* ------------------------------------------------ specification: parsing

InitParse ==
  /\ SysInit
  /\ build = "current"
  /\ fin \in SeqsUpTo(LineDescs, MaxLines)
  /\ fout = NotRun

\* The parsing part of createDiagnostics on the described output.
ApplyParse ==
  /\ fout = NotRun
  /\ fout' = [fn |-> "createDiagnostics",
              lines |-> OutputLines(JoinLines(fin)),
              v |-> ParsedErrors(JoinLines(fin))]
  /\ UNCHANGED <<build, fin, sysvars>>

NextParse == ApplyParse

SpecParse == InitParse /\ [][NextParse]_vars

\* ---------------------------------------------- specification: severity

\* One line of the shape, with every uppercase letter as its classifier's
\* first character.
InitSeverity ==
  /\ SysInit
  /\ build = "current"
  /\ fin \in {<<[BaseLine EXCEPT !.letter = c, !.d4 = n]>> :
                 c \in Upper, n \in {0, 1, 304, 9999}}
  /\ fout = NotRun

SpecSeverity == InitSeverity /\ [][NextParse]_vars

\* Some character of the text is not white space.
HasText(t) == \E i \in 1..Len(t) : t[i] \notin WhiteSpace

\* The severity the specification gives a classifier letter.
SeverityOfLetter(c) ==
  IF c \in {"F", "E"} THEN "Error"
  ELSE IF c = "I" THEN "Information" ELSE "Warning"

\* The record C5 states for a line of the shape.
StatedRecord(d) ==
  [line |-> d.line, column |-> d.column,
   code |-> <<d.letter>> \o Format04(d.d4), message |-> Trim(d.msg)]

\* The described lines of the shape among ds, in order.
ShapedLines(ds) == SelectSeq(ds, LAMBDA d : d.kind = "diag")

PlainPath(d) == ~ Match(d.path \o <<":">>).ok

PlainInput ==
  \A k \in 1..Len(fin) :
    fin[k].kind = "diag" => HasText(fin[k].msg) /\ PlainPath(fin[k])

\* C6: severity is a total three-way function of the classifier's first
\* letter alone: F or E gives Error, I gives Information, any other uppercase
\* letter gives Warning; no record has another or no severity.
C6_SeverityOfFirstLetter ==
  fout.fn = "createDiagnostics" =>
    /\ \A k \in 1..Len(fout.v) :
         fout.v[k].severity \in {"Error", "Warning", "Information"}
    /\ \A j \in 1..Len(fout.lines) :
         Match(fout.lines[j]).ok =>
           ParseLine(fout.lines[j]).severity
             = SeverityOfLetter(Match(fout.lines[j]).errorCode[1])
    /\ PlainInput =>
         \A k \in 1..Len(fout.v) :
           fout.v[k].severity = SeverityOfLetter(ShapedLines(fin)[k].letter)

\* A line with the classifier Z9999 was parsed to a Warning.
C6_Witness ==
  /\ fout.fn = "createDiagnostics"
  /\ fin = <<[BaseLine EXCEPT !.letter = "Z", !.d4 = 9999]>>
  /\ Len(fout.v) = 1
  /\ fout.v[1].severity = "Warning"

\* The positions of the line breaks of a text, and its j-th line.
Breaks(t) == {i \in 1..Len(t) : t[i] = "\n"}

NthBreak(t, j) ==
  CHOOSE i \in Breaks(t) : Cardinality({h \in Breaks(t) : h < i}) = j - 1

LineOf(t, j) ==
  SubSeq(t,
         IF j = 1 THEN 1 ELSE NthBreak(t, j - 1) + 1,
         IF j = Cardinality(Breaks(t)) + 1 THEN Len(t) ELSE NthBreak(t, j) - 1)

\* The line holds ":<digits>:<digits>:<space><letter><4 digits>:<space>" and
\* then at least one character of a message.
HoldsPattern(line) ==
  LET n == Len(line)
  IN \E i \in 1..n :
       /\ line[i] = ":"
       /\ \E a \in (i + 1)..n :
            /\ a + 1 <= n /\ line[a + 1] = ":"
            /\ \A k \in (i + 1)..a : line[k] \in Digits
            /\ \E b \in (a + 2)..n :
                 /\ b + 10 <= n
                 /\ line[b + 1] = ":"
                 /\ \A k \in (a + 2)..b : line[k] \in Digits
                 /\ line[b + 2] \in WhiteSpace
                 /\ line[b + 3] \in Upper
                 /\ \A k \in (b + 4)..(b + 7) : line[k] \in Digits
                 /\ line[b + 8] = ":"
                 /\ line[b + 9] \in WhiteSpace
                 /\ line[b + 10] \notin LineTerminators

\* C7: the records are exactly one per matching line of the (trimmed) output,
\* in the order of the lines, and none for any other line; an output with no
\* matching line, the empty output among them, gives the empty sequence.
C7_OneRecordPerMatchingLine ==
  fout.fn = "createDiagnostics" =>
    LET t == Trim(JoinLines(fin))
        n == Cardinality(Breaks(t)) + 1
        hits == {j \in 1..n : HoldsPattern(LineOf(t, j))}
        NthHit(k) == CHOOSE j \in hits : Cardinality({h \in hits : h < j}) = k - 1
    IN /\ Len(fout.v) = Cardinality(hits)
       /\ \A k \in 1..Len(fout.v) : fout.v[k] = ParseLine(LineOf(t, NthHit(k)))
       /\ PlainInput =>
            \A k \in 1..Len(fout.v) :
              /\ fout.v[k].line = ShapedLines(fin)[k].line
              /\ fout.v[k].column = ShapedLines(fin)[k].column
       /\ (fin = <<>> \/ \A k \in 1..Len(fin) : fin[k].kind = "other")
            => fout.v = <<>>

\* Two matching lines with different positions gave two records in the
\* lines' order.
C7_Witness ==
  /\ fout.fn = "createDiagnostics"
  /\ Len(fin) = 2
  /\ fin[1] = [BaseLine EXCEPT !.line = 12]
  /\ fin[2] = [BaseLine EXCEPT !.column = 7]
  /\ Len(fout.v) = 2
  /\ fout.v[1].line = 12
  /\ fout.v[2].column = 7

\* ------------------------------------------------- runLinter: the state

\* Most calls of runLinter on a Python document in one behaviour.
MaxRuns == 2

\* "a.py:1:0: E0001: m\n"
ChunkE == LineText(BaseLine) \o <<"\n">>

\* "a.py:2:3: W0002: w\n" in two chunks, cut inside the classifier.
ChunkW1 == <<"a", ".", "p", "y", ":", "2", ":", "3", ":", " ", "W", "0", "0">>

ChunkW2 == <<"0", "2", ":", " ", "w", "\n">>

\* "a.py:0:0: F0010: f\n": a message for line 0.
ChunkF0 ==
  LineText([BaseLine EXCEPT !.line = 0, !.letter = "F", !.d4 = 10,
                            !.msg = <<"f">>]) \o <<"\n">>

\* What a pylint process may write for the content it is given: its stdout
\* chunks in order, and its stderr chunks in order.
Outputs ==
  {[out |-> <<>>, err |-> <<>>],
   [out |-> <<ChunkE>>, err |-> <<>>],
   [out |-> <<ChunkW1, ChunkW2>>, err |-> <<>>],
   [out |-> <<ChunkF0>>, err |-> <<>>],
   [out |-> <<>>, err |-> <<<<"No module named pylint">>>>]}

\* exitCode of a run whose process has not closed.
NoExit == "none"

\* The messages of the errors fs.readFile may report.
ReadErrors == {<<"ENOENT: no such file or directory">>}

\* ------------------------------------------------------ createDiagnostics

\* new vscode.Position(line, character) throws on a negative coordinate.
PositionThrows(line, character) == line < 0 \/ character < 0

\* The forEach of createDiagnostics throws at the first such record.
ListThrows(parsedErrors) ==
  \E k \in 1..Len(parsedErrors) :
    PositionThrows(parsedErrors[k].line - 1, parsedErrors[k].column)

\* diagnosticList of createDiagnostics.
DiagnosticList(parsedErrors) ==
  [k \in 1..Len(parsedErrors) |->
     [range |-> [start |-> [line |-> parsedErrors[k].line - 1,
                            character |-> parsedErrors[k].column],
                 end |-> [line |-> parsedErrors[k].line - 1,
                          character |-> parsedErrors[k].column]],
      message |-> parsedErrors[k].message,
      severity |-> parsedErrors[k].severity]]

\* C20 as stated: for every raw output every record the parser produces has
\* line >= 1 and column >= 0, so that the range published at
\* (line - 1, column) has no negative line coordinate.
C20_LineAtLeastOne ==
  fout /= NotRun =>
    \A k \in 1..Len(fout.v) :
      /\ fout.v[k].line >= 1
      /\ fout.v[k].column >= 0
      /\ ~ PositionThrows(fout.v[k].line - 1, fout.v[k].column)

\* What holds: the pattern's \d+ takes no sign, so line and column are never
\* negative; the line may be 0.
C20_NotNegative ==
  fout /= NotRun =>
    \A k \in 1..Len(fout.v) : fout.v[k].line >= 0 /\ fout.v[k].column >= 0

\* A mutant of SetDiagnostics: the list added to the one held.
SetDiagnostics_additive(coll, uri, list) ==
  [coll EXCEPT ![uri] = coll[uri] \o list]

\* diagnosticCollection.set(uri, list): the list replaces the one held.
SetDiagnostics(coll, uri, list) == [coll EXCEPT ![uri] = list]

\* createDiagnostics(fileUri), called on the close of run r.
CreateDiagnostics(fileUri, r) ==
  LET parsedErrors == ParsedErrors(linterOutput)
      threw == ListThrows(parsedErrors)
      list == IF threw THEN <<>> ELSE DiagnosticList(parsedErrors)
      outcome == IF threw THEN "threw"
                 ELSE IF fileUri /= NoEditor THEN "set" ELSE "none"
  IN /\ diagnosticCollection' =
          IF outcome = "set"
          THEN SetDiagnostics(diagnosticCollection, fileUri, list)
          ELSE diagnosticCollection
     /\ createLog' = Append(createLog,
          [run |-> r, uri |-> fileUri, outcome |-> outcome, list |-> list,
           buffer |-> linterOutput, from |-> bufferFrom, latest |-> Len(runs)])

\* ---------------------------------------------------- runLinter: actions

\* A mutant of ResetBuffer: the buffer is kept.
ResetBuffer_kept(buffer) == buffer

\* linterOutput = "" at the start of runLinter.
ResetBuffer(buffer) == <<>>

\* onDidSaveTextDocument(document): runLinter up to the call of fs.readFile.
SaveDocument(d) ==
  /\ d \in Docs
  /\ IF LanguageId(d) = "python"
     THEN /\ Len(runs) < MaxRuns
          /\ linterOutput' = ResetBuffer(linterOutput)
          /\ bufferFrom' = ResetBuffer(bufferFrom)
          /\ runs' = Append(runs, [document |-> d, state |-> "reading",
                                   stdout |-> <<>>, out |-> <<>>, err |-> <<>>,
                                   stderr |-> <<>>,
                                   spawned |-> 0, error |-> "none",
                                   exitCode |-> NoExit])
          /\ UNCHANGED <<diagnosticCollection, activeTextEditor, errorMessages,
                         createLog, repairs>>
     ELSE UNCHANGED sysvars
  /\ UNCHANGED <<build, fin, fout>>

\* A mutant of ReadFailed: the callback goes on to spawn pylint on no content.
ReadFailed_spawns(run) == [run EXCEPT !.state = "running", !.spawned = @ + 1]

\* The return at line 17: the run has ended, nothing was spawned.
ReadFailed(run) == [run EXCEPT !.state = "failed"]

\* The callback of fs.readFile with an error.
ReadFileError(r, err) ==
  /\ r \in 1..Len(runs)
  /\ runs[r].state = "reading"
  /\ err \in ReadErrors
  /\ errorMessages' = Append(errorMessages,
       [from |-> "runLinter", run |-> r,
        text |-> <<"Failed to read file: ">> \o err])
  /\ runs' = [runs EXCEPT ![r] = ReadFailed(runs[r])]
  /\ UNCHANGED <<linterOutput, diagnosticCollection, activeTextEditor,
                 createLog, bufferFrom, repairs>>
  /\ UNCHANGED <<build, fin, fout>>

\* The callback of fs.readFile with the content: pylint is spawned, the
\* content written to its stdin and the three listeners attached.  What the
\* process will write (o) is fixed by the content it is given.
ReadFileDone(r, o) ==
  /\ r \in 1..Len(runs)
  /\ runs[r].state = "reading"
  /\ o \in Outputs
  /\ runs' = [runs EXCEPT ![r].state = "running", ![r].out = o.out,
                          ![r].err = o.err, ![r].spawned = @ + 1]
  /\ UNCHANGED <<linterOutput, diagnosticCollection, activeTextEditor,
                 errorMessages, createLog, bufferFrom, repairs>>
  /\ UNCHANGED <<build, fin, fout>>

\* The callback of fs.readFile with the content, and the shell cannot be
\* spawned: the child emits 'error'.  runLinter attaches no 'error' listener
\* (lines 29-40 attach data, data and close only), so the error is thrown in
\* the event loop and nothing is shown; the process writes nothing.  The
\* child's 'close' may or may not follow.
SpawnError(r) ==
  /\ r \in 1..Len(runs)
  /\ runs[r].state = "reading"
  /\ runs' = [runs EXCEPT ![r].state = "running", ![r].error = "spawn",
                          ![r].spawned = @ + 1]
  /\ UNCHANGED <<linterOutput, diagnosticCollection, activeTextEditor,
                 errorMessages, createLog, bufferFrom, repairs>>
  /\ UNCHANGED <<build, fin, fout>>

\* A mutant of AppendData: the chunk replaces the buffer.
AppendData_replacing(buffer, data) == data

\* linterOutput += data.toString()
AppendData(buffer, data) == buffer \o data

\* linter.stdout.on("data"): the process's next chunk is added to linterOutput.
StdoutData(r) ==
  /\ r \in 1..Len(runs)
  /\ runs[r].state = "running"
  /\ runs[r].out /= <<>>
  /\ linterOutput' = AppendData(linterOutput, Head(runs[r].out))
  /\ bufferFrom' = Append(bufferFrom, r)
  /\ runs' = [runs EXCEPT ![r].stdout = @ \o Head(runs[r].out),
                          ![r].out = Tail(@)]
  /\ UNCHANGED <<diagnosticCollection, activeTextEditor, errorMessages,
                 createLog, repairs>>
  /\ UNCHANGED <<build, fin, fout>>

\* linter.stderr.on("data"): the chunk is shown as an error message.
StderrData(r) ==
  /\ r \in 1..Len(runs)
  /\ runs[r].state = "running"
  /\ runs[r].err /= <<>>
  /\ errorMessages' = Append(errorMessages,
       [from |-> "runLinter", run |-> r,
        text |-> <<"Pylint Error: ">> \o Head(runs[r].err)])
  /\ runs' = [runs EXCEPT ![r].stderr = Append(@, Head(runs[r].err)),
                          ![r].err = Tail(@)]
  /\ UNCHANGED <<linterOutput, diagnosticCollection, activeTextEditor,
                 createLog, bufferFrom, repairs>>
  /\ UNCHANGED <<build, fin, fout>>

\* The uri handed to createDiagnostics on close: the focused editor's
\* document in the current and the original version, the saved document in v1.
CloseUri(r) ==
  IF build = "v1" THEN runs[r].document ELSE activeTextEditor

\* The exit codes 'close' may carry: pylint's 0 (clean) and a non-zero code
\* for messages found (4: a warning).  A failed spawn closes with a negative
\* errno (-2, ENOENT).
ExitCodes == {0, 4}

\* A mutant of Completes: only a clean exit is taken for a completion.
Completes_zeroOnly(code) == code = 0

\* The close listener takes no argument and tests nothing: line 37.
Completes(code) == TRUE

\* linter.on("close"), whatever the exit code: the process has ended and
\* its streams are closed, so all it wrote has been delivered.
Close(r) ==
  /\ r \in 1..Len(runs)
  /\ runs[r].state = "running"
  /\ runs[r].out = <<>>
  /\ runs[r].err = <<>>
  /\ \E code \in IF runs[r].error = "spawn" THEN {-2} ELSE ExitCodes :
       /\ runs' = [runs EXCEPT ![r].state = "closed", ![r].exitCode = code]
       /\ IF Completes(code)
          THEN CreateDiagnostics(CloseUri(r), r)
          ELSE UNCHANGED <<diagnosticCollection, createLog>>
  /\ UNCHANGED <<linterOutput, activeTextEditor, errorMessages, bufferFrom,
                 repairs>>
  /\ UNCHANGED <<build, fin, fout>>

\* The documents an editor can show: the workspace's and the opened results.
Showable ==
  Docs \cup {Untitled[k] : k \in {j \in 1..Len(repairs) : repairs[j].pc = "shown"}}

\* The user focuses another editor, or none.
ChangeActiveEditor(e) ==
  /\ e \in Showable \cup {NoEditor}
  /\ e /= activeTextEditor
  /\ activeTextEditor' = e
  /\ UNCHANGED <<linterOutput, diagnosticCollection, runs, errorMessages,
                 createLog, bufferFrom, repairs>>
  /\ UNCHANGED <<build, fin, fout>>

\* ------------------------------------------- specification: the analysis

InitLint ==
  /\ SysInit
  /\ build \in {"current", "v1"}
  /\ fin = <<>>
  /\ fout = NotRun

NextLint ==
  \/ \E d \in Docs : SaveDocument(d)
  \/ \E r \in 1..MaxRuns, err \in ReadErrors : ReadFileError(r, err)
  \/ \E r \in 1..MaxRuns, o \in Outputs : ReadFileDone(r, o)
  \/ \E r \in 1..MaxRuns : SpawnError(r)
  \/ \E r \in 1..MaxRuns : StdoutData(r)
  \/ \E r \in 1..MaxRuns : StderrData(r)
  \/ \E r \in 1..MaxRuns : Close(r)
  \/ \E e \in Uris \cup {NoEditor} : ChangeActiveEditor(e)

SpecLint == InitLint /\ [][NextLint]_vars

\* The calls of createDiagnostics that set the diagnostics of uri u.
SetsOf(u) ==
  {k \in 1..Len(createLog) :
     createLog[k].outcome = "set" /\ createLog[k].uri = u}

\* C8: publishing replaces: after batch A and then batch B were published for
\* document D, the diagnostics held for D are exactly B's (none of A's), also
\* when B is empty; a document nothing was published for holds none.
C8_PublishReplaces ==
  \A u \in Uris :
    IF SetsOf(u) = {} THEN diagnosticCollection[u] = <<>>
    ELSE diagnosticCollection[u] = createLog[Max(SetsOf(u))].list

\* A non-empty batch and then an empty batch were published for one document.
C8_Witness ==
  \E u \in Uris :
    \E j \in SetsOf(u), k \in SetsOf(u) :
      /\ j < k
      /\ k = Max(SetsOf(u))
      /\ createLog[j].list /= <<>>
      /\ createLog[k].list = <<>>
      /\ diagnosticCollection[u] = <<>>

\* C9 as stated: the diagnostics published on the close of a run are the
\* parse of the full stdout of that run, the one that completed last.
C9_PublishedIsLastRunsOutput ==
  createLog /= <<>> =>
    LET e == createLog[Len(createLog)]
    IN e.outcome = "set" =>
         diagnosticCollection[e.uri]
           = DiagnosticList(ParsedErrors(runs[e.run].stdout))

\* C10 as stated: the buffer parsed at a publication holds chunks of one run
\* only, and none that a run wrote after a later save reset the buffer: every
\* chunk in it is of the run started last.
C10_BufferOfOneRun ==
  \A k \in 1..Len(createLog) :
    \A i \in 1..Len(createLog[k].from) :
      createLog[k].from[i] = createLog[k].latest

\* ------------------------------------------- the analysis: run outcomes

\* The error messages runLinter has shown for run r.
MessagesOf(r) ==
  {k \in 1..Len(errorMessages) :
     errorMessages[k].from = "runLinter" /\ errorMessages[k].run = r}

\* The Failed signals of run r: the message of line 16, after which the
\* callback returns.
FailedSignals(r) ==
  {k \in MessagesOf(r) : errorMessages[k].text[1] = "Failed to read file: "}

\* The calls of createDiagnostics made for run r: its parse-and-publish
\* attempts.
AttemptsOf(r) == {k \in 1..Len(createLog) : createLog[k].run = r}

\* A step in which createDiagnostics is called with no document identity.
PublishesWithoutIdentity ==
  /\ Len(createLog') = Len(createLog) + 1
  /\ createLog'[Len(createLog')].uri = NoEditor

\* C11 as stated: when a run completes and no editor is focused, the
\* publication is a no-op: no error is raised (none thrown, none shown) and
\* the diagnostics of every document are left as they were.
C11_NoIdentityIsNoOp ==
  [][PublishesWithoutIdentity =>
       /\ createLog'[Len(createLog')].outcome = "none"
       /\ errorMessages' = errorMessages
       /\ diagnosticCollection' = diagnosticCollection]_vars

\* What holds of such a publication: nothing is shown and no document's
\* diagnostics change; the call returns normally unless the forEach of lines
\* 76-82 threw before the test of line 84 was reached.
C11_NoIdentityPublishesNothing ==
  [][PublishesWithoutIdentity =>
       /\ createLog'[Len(createLog')].outcome \in {"none", "threw"}
       /\ createLog'[Len(createLog')].outcome = "threw"
            => ListThrows(ParsedErrors(linterOutput))
       /\ errorMessages' = errorMessages
       /\ diagnosticCollection' = diagnosticCollection]_vars

\* C13 as stated: every run gives one terminal signal and is never retried:
\* one Failed (file-read or spawn error) with no publication attempt, or one
\* Completed (close) with exactly one parse-and-publish attempt; never both
\* and never more than one.
C13_OneTerminalSignal ==
  \A r \in 1..Len(runs) :
    LET F == Cardinality(FailedSignals(r))
        P == Cardinality(AttemptsOf(r))
    IN /\ runs[r].spawned <= 1
       /\ F + P <= 1
       /\ runs[r].state = "failed" => F = 1 /\ P = 0
       /\ runs[r].state = "closed" => F = 0 /\ P = 1
       /\ runs[r].error = "spawn" => F = 1 /\ P = 0

\* What holds of the two outcomes the code handles, the read error and the
\* close.
C13_ReadErrorOrClose ==
  \A r \in 1..Len(runs) :
    LET F == Cardinality(FailedSignals(r))
        P == Cardinality(AttemptsOf(r))
    IN /\ runs[r].spawned <= 1
       /\ F + P <= 1
       /\ runs[r].state = "failed" => F = 1 /\ P = 0
       /\ runs[r].state = "closed" => F = 0 /\ P = 1

\* C14: on close the buffer is parsed and published whatever the exit code:
\* every closed run has exactly one parse-and-publish attempt, made on the
\* buffer as it stood, whose outcome depends on the parsed records and the
\* uri alone; it has no Failed signal, and the messages shown for it are its
\* stderr chunks, one each, none for the exit code.
C14_ExitCodeIgnored ==
  \A r \in 1..Len(runs) :
    runs[r].state = "closed" =>
      /\ Cardinality(AttemptsOf(r)) = 1
      /\ FailedSignals(r) = {}
      /\ Cardinality(MessagesOf(r)) = Len(runs[r].stderr)
      /\ \A k \in AttemptsOf(r) :
           LET e == createLog[k]
           IN e.outcome =
                IF ListThrows(ParsedErrors(e.buffer)) THEN "threw"
                ELSE IF e.uri = NoEditor THEN "none" ELSE "set"

\* A process that wrote a diagnostic and no stderr exited with a non-zero
\* code, and its diagnostic was published.
C14_Witness ==
  \E r \in 1..Len(runs) :
    /\ runs[r].state = "closed"
    /\ runs[r].exitCode = 4
    /\ runs[r].stderr = <<>>
    /\ \E k \in AttemptsOf(r) :
         /\ createLog[k].outcome = "set"
         /\ createLog[k].list /= <<>>
         /\ diagnosticCollection[createLog[k].uri] = createLog[k].list

\* A step in which the read error of a run is reported.
ReportsReadError ==
  \E r \in 1..Len(runs) : FailedSignals(r)' /= FailedSignals(r)

\* C15: a failed read aborts the run without retry: one error message is
\* shown ("Failed to read file: " and the error's message), no process is
\* spawned then or later, nothing is published for the run, and the step
\* leaves the diagnostics of every document as they were.
C15_ReadErrorAborts ==
  /\ [](\A r \in 1..Len(runs) :
          FailedSignals(r) /= {} =>
            /\ runs[r].state = "failed"
            /\ runs[r].spawned = 0
            /\ runs[r].stdout = <<>>
            /\ AttemptsOf(r) = {}
            /\ Cardinality(MessagesOf(r)) = 1
            /\ \A k \in MessagesOf(r) :
                 \E err \in ReadErrors :
                   errorMessages[k].text = <<"Failed to read file: ">> \o err)
  /\ [][ReportsReadError =>
          /\ diagnosticCollection' = diagnosticCollection
          /\ linterOutput' = linterOutput
          /\ createLog' = createLog]_vars

\* The read of a second save failed while the diagnostics of the first are
\* published.
C15_Witness ==
  \E r \in 1..Len(runs) :
    /\ runs[r].state = "failed"
    /\ FailedSignals(r) /= {}
    /\ \E u \in Uris : diagnosticCollection[u] /= <<>>

\* C17 as stated: for a run with no other save between its start and its
\* close, the buffer parsed on its close is the concatenation of that run's
\* stdout chunks in arrival order, from empty.
C17_BufferIsRunsStdout ==
  \A k \in 1..Len(createLog) :
    createLog[k].latest = createLog[k].run =>
      createLog[k].buffer = runs[createLog[k].run].stdout

\* What holds: the same of a run that no other run was started before.
C17_FirstRunAlone ==
  \A k \in 1..Len(createLog) :
    createLog[k].latest = 1 =>
      createLog[k].buffer = runs[createLog[k].run].stdout

\* What holds of stderr: a stderr chunk leaves the buffer as it was and shows
\* one message.
C17_StderrOnlyNotifies ==
  [][(\E r \in 1..Len(runs) : Len(runs'[r].stderr) > Len(runs[r].stderr)) =>
       /\ linterOutput' = linterOutput
       /\ Len(errorMessages') = Len(errorMessages) + 1]_vars

\* C21 as stated: the diagnostics parsed on the close of a run started by
\* saving document D are published under D's identity and under no other's,
\* also when the focus has moved to another document since the save.
C21_PublishedUnderSavedDocument ==
  \A k \in 1..Len(createLog) :
    createLog[k].outcome = "set" =>
      createLog[k].uri = runs[createLog[k].run].document

\* What holds: the same of v1, whose close listener passes document.uri.
C21_SavedDocumentInV1 == build = "v1" => C21_PublishedUnderSavedDocument

\* -------------------------------------------- the repair command: stages

\* LOGIC_FIX_PROMPT of v1.
LOGIC_FIX_PROMPT_v1 ==
  <<"[INST] <<SYS>>\nYou are a strict Python code fixer. The input Python code always contains at least one logical or syntax error. You must identify and correct these. Output only the corrected Python code, with NO extra text or formatting.\n<</SYS>>\n\nInput:\n">>
    \o CodeSlot \o <<"\n\nOutput:\n[/INST]">>

\* SYNTAX_FIX_PROMPT of v1.
SYNTAX_FIX_PROMPT_v1 ==
  <<"[INST] <<SYS>>\nYou are a code transformation agent. Your task is to fix syntax errors in the provided Python code. Output only the corrected Python code with no explanations or formatting.\n<</SYS>>\n\nInput:\n">>
    \o CodeSlot \o <<"\n\nOutput:\n[/INST]">>

\* PYLINT_FIX_PROMPT of v1.
PYLINT_FIX_PROMPT_v1 ==
  <<"[INST] <<SYS>>\nYou are a code transformation agent. Your task is to fix remaining Pylint errors in the provided Python code based on the given Pylint output. Output only the corrected Python code with no explanations or formatting.\n<</SYS>>\n\nPython code:\n">>
    \o CodeSlot \o <<"\n\nPylint output:\n">> \o LintSlot
    \o <<"\n\nOutput:\n[/INST]">>

\* The template literal of the original version's runOllamaPrompt: the text
\* before ${code} and the text after it.
ORIGINAL_PROMPT_HEAD ==
  <<"[INST] <<SYS>>\nYou are a strict Python code fixer. The input Python code always contains at least one logical or syntax error. You must identify and correct these. Output only the corrected Python code, with NO extra text or formatting.\n<</SYS>>\n\n# Example:\nInput:\ndef is_even(n):\n    return n % 2 == 1\n\nOutput:\ndef is_even(n):\n    return n % 2 == 0\n\n---\n\nInput:\n">>

ORIGINAL_PROMPT_TAIL == <<"\n\nOutput:\n[/INST]">>

\* No progress label: the original version reports none.
NoLabel == "none"

\* The stages of generateFixedCodeHandler in declaration order: the progress
\* label, the template, and whether linterOutput is passed.
Stages(b) ==
  IF b = "current"
  THEN <<[label |-> "Fixing logical errors...", prompt |-> LOGIC_FIX_PROMPT,
          lint |-> FALSE],
         [label |-> "Fixing Pylint syntax errors...",
          prompt |-> PYLINT_FIX_PROMPT, lint |-> TRUE]>>
  ELSE IF b = "v1"
  THEN <<[label |-> "Fixing logical errors...", prompt |-> LOGIC_FIX_PROMPT_v1,
          lint |-> FALSE],
         [label |-> "Fixing syntax errors...", prompt |-> SYNTAX_FIX_PROMPT_v1,
          lint |-> FALSE],
         [label |-> "Fixing remaining Pylint errors...",
          prompt |-> PYLINT_FIX_PROMPT_v1, lint |-> TRUE]>>
  ELSE <<[label |-> NoLabel, prompt |-> <<>>, lint |-> FALSE]>>

\* The prompt sent for stage k.
PromptOf(b, k, code, lint) ==
  IF b = "original" THEN ORIGINAL_PROMPT_HEAD \o code \o ORIGINAL_PROMPT_TAIL
  ELSE FormatPrompt(Stages(b)[k].prompt, code, lint)

\* String.prototype.startsWith.
StartsWith(s, pat) == Len(s) >= Len(pat) /\ SubSeq(s, 1, Len(pat)) = pat

\* Array.prototype.join("\n").
RECURSIVE Join(_)
Join(lines) ==
  IF lines = <<>> THEN <<>>
  ELSE IF Len(lines) = 1 THEN lines[1]
  ELSE lines[1] \o <<"\n">> \o Join(Tail(lines))

\* The original version's filter: the lines from the first that starts with
\* "def"; findIndex gives -1 when there is none, and slice(-1) the last line.
FromFirstDef(output) ==
  LET lines == Split(output)
      defs == {i \in 1..Len(lines) : StartsWith(Trim(lines[i]), <<"d", "e", "f">>)}
      firstCodeLineIndex == IF defs = {} THEN -1 ELSE Min(defs) - 1
  IN IF firstCodeLineIndex = -1
     THEN Join(SubSeq(lines, Len(lines), Len(lines)))
     ELSE Join(SubSeq(lines, firstCodeLineIndex + 1, Len(lines)))

\* What runOllamaPrompt returns for the response's content.
RunOllamaReturn(b, content) ==
  IF b = "current" THEN extractLastOutput(Trim(content))
  ELSE IF b = "v1" THEN Trim(content)
  ELSE FromFirstDef(Trim(content))

\* The value of the handler's variable code after a stage: what
\* runOllamaPrompt returned, which the original version then hands to
\* extractLastOutput.
StageOutput(b, content) ==
  IF b = "original" THEN extractLastOutput_original(RunOllamaReturn(b, content))
  ELSE RunOllamaReturn(b, content)

\* A mutant of CodeAfterStage: the result is not assigned.
CodeAfterStage_kept(code, returned) == code

\* code = await runOllamaPrompt(...)
CodeAfterStage(code, returned) == returned

\* A mutant of FailureText: the caught error's message is left out.
FailureText_generic(message) == <<"Error generating fixed code">>

\* The message shown by the handler's catch for an error of ollama.chat,
\* which runOllamaPrompt has wrapped.
FailureText(message) ==
  <<"Error generating fixed code: ">> \o <<"Error running Ollama prompt: ">>
    \o message

\* ----------------------------------------- the repair command: the state

\* Most invocations of the repair command in one behaviour.
MaxRepairs == 2

\* The text of each document of the workspace.
DocText == [d \in Docs |-> IF d = "a.py" THEN <<"x">> ELSE <<"z">>]

\* document.getText(): an opened result holds the text it was opened with.
GetText(d) ==
  IF d \in Docs THEN DocText[d]
  ELSE repairs[CHOOSE k \in 1..Len(repairs) : Untitled[k] = d].code

\* The contents the model may answer with.
Responses ==
  {<<"A">>,
   <<" ">> \o Marker \o <<" ", "B", "\n">>,
   <<"x", "\n", "d", "e", "f", " ", "f", "\n">> \o Marker \o <<"\n", "C">>}

\* The messages of the errors ollama.chat may throw.
ChatErrors == {<<"fetch failed">>}

\* The events of starting stage k with the given code: the progress report
\* (if the version reports one) and the call of runOllamaPrompt.  The call
\* is recorded with the analysis runs as they stand at that moment.
StartStage(b, k, code) ==
  LET lint == IF Stages(b)[k].lint THEN linterOutput ELSE Omitted
  IN (IF Stages(b)[k].label = NoLabel THEN <<>>
      ELSE <<[ev |-> "report", stage |-> k, label |-> Stages(b)[k].label]>>)
     \o <<[ev |-> "call", stage |-> k, code |-> code, lint |-> lint,
           prompt |-> PromptOf(b, k, code, lint), runs |-> runs]>>

\* ---------------------------------------- the repair command: actions

\* A mutant of NoTargetEvents: the first label is reported before the editor
\* is looked for.
NoTargetEvents_reports(b) ==
  <<[ev |-> "report", stage |-> 1, label |-> Stages(b)[1].label]>>

\* What the handler does after the message when there is no editor: it
\* returns (line 154).
NoTargetEvents(b) == <<>>

\* A mutant of NextStage: the stage is run again.
NextStage_same(k) == k

\* The stage after stage k: the statements of the handler in sequence.
NextStage(k) == k + 1

\* The command is invoked: generateFixedCodeHandler up to its first await.
InvokeCommand ==
  /\ Len(repairs) < MaxRepairs
  /\ IF activeTextEditor = NoEditor
     THEN /\ errorMessages' = Append(errorMessages,
               [from |-> "repair", run |-> Len(repairs) + 1,
                text |-> <<"No active editor found.">>])
          /\ repairs' = Append(repairs,
               [pc |-> "noEditor", document |-> NoEditor, stage |-> 0,
                code |-> <<>>, trace |-> NoTargetEvents(build)])
     ELSE /\ repairs' = Append(repairs,
               [pc |-> "chat", document |-> activeTextEditor, stage |-> 1,
                code |-> GetText(activeTextEditor),
                trace |-> StartStage(build, 1, GetText(activeTextEditor))])
          /\ UNCHANGED errorMessages
  /\ UNCHANGED <<linterOutput, diagnosticCollection, activeTextEditor, runs,
                 createLog, bufferFrom>>
  /\ UNCHANGED <<build, fin, fout>>

\* ollama.chat answers for the stage in flight: the code is replaced by the
\* stage's output and the next stage is started, or after the last stage the
\* result is about to be opened.
ChatResponds(id, content) ==
  /\ id \in 1..Len(repairs)
  /\ repairs[id].pc = "chat"
  /\ content \in Responses
  /\ LET k == repairs[id].stage
         code == CodeAfterStage(repairs[id].code, StageOutput(build, content))
         got == <<[ev |-> "response", stage |-> k, content |-> content]>>
     IN repairs' =
          IF k < Len(Stages(build))
          THEN [repairs EXCEPT ![id].code = code, ![id].stage = NextStage(k),
                  ![id].trace = @ \o got
                                  \o StartStage(build, NextStage(k), code)]
          ELSE [repairs EXCEPT ![id].code = code, ![id].pc = "opening",
                  ![id].trace = @ \o got]
  /\ UNCHANGED <<linterOutput, diagnosticCollection, activeTextEditor, runs,
                 errorMessages, createLog, bufferFrom>>
  /\ UNCHANGED <<build, fin, fout>>

\* ollama.chat throws for the stage in flight: runOllamaPrompt wraps the
\* error, the handler's catch shows it, and the handler ends.
ChatFails(id, message) ==
  /\ id \in 1..Len(repairs)
  /\ repairs[id].pc = "chat"
  /\ message \in ChatErrors
  /\ repairs' = [repairs EXCEPT ![id].pc = "failed",
       ![id].trace = Append(@, [ev |-> "error", stage |-> repairs[id].stage,
                                message |-> message])]
  /\ errorMessages' = Append(errorMessages,
       [from |-> "repair", run |-> id, text |-> FailureText(message)])
  /\ UNCHANGED <<linterOutput, diagnosticCollection, activeTextEditor, runs,
                 createLog, bufferFrom>>
  /\ UNCHANGED <<build, fin, fout>>

\* openTextDocument and showTextDocument: the result is opened as an untitled
\* document, which gets the focus.
OpenResult(id) ==
  /\ id \in 1..Len(repairs)
  /\ repairs[id].pc = "opening"
  /\ repairs' = [repairs EXCEPT ![id].pc = "shown",
       ![id].trace = Append(@, [ev |-> "open", content |-> repairs[id].code])]
  /\ activeTextEditor' = Untitled[id]
  /\ UNCHANGED <<linterOutput, diagnosticCollection, runs, errorMessages,
                 createLog, bufferFrom>>
  /\ UNCHANGED <<build, fin, fout>>

\* --------------------------------- specification: the repair command

\* The repair command on its own, with linterOutput as an analysis left it.
InitRepair ==
  /\ build \in Builds
  /\ linterOutput \in {<<>>, ChunkE}
  /\ diagnosticCollection = [u \in Uris |-> <<>>]
  /\ activeTextEditor = NoEditor
  /\ runs = <<>>
  /\ errorMessages = <<>>
  /\ createLog = <<>>
  /\ bufferFrom = <<>>
  /\ repairs = <<>>
  /\ fin = <<>>
  /\ fout = NotRun

NextRepair ==
  \/ InvokeCommand
  \/ \E id \in 1..MaxRepairs, content \in Responses : ChatResponds(id, content)
  \/ \E id \in 1..MaxRepairs, message \in ChatErrors : ChatFails(id, message)
  \/ \E id \in 1..MaxRepairs : OpenResult(id)
  \/ \E e \in Uris \cup {NoEditor} : ChangeActiveEditor(e)

SpecRepair == InitRepair /\ [][NextRepair]_vars

\* The events of one kind in a repair's trace, in order.
EventsOf(t, kind) == SelectSeq(t, LAMBDA e : e.ev = kind)

EndsWith(text, tail) ==
  Len(text) >= Len(tail)
    /\ SubSeq(text, Len(text) - Len(tail) + 1, Len(text)) = tail

\* C2: once the model invocation of a stage has failed, whatever the stage,
\* the run is Failed: the failure is the last event of the run (no later
\* stage is called, none is called again, nothing is opened or shown), and
\* exactly one error message of the run is shown, which carries the error's
\* message.
C2_FailureEndsTheRun ==
  \A r \in 1..Len(repairs) :
    LET t == repairs[r].trace
        shownErrors ==
          {i \in 1..Len(errorMessages) :
             errorMessages[i].from = "repair" /\ errorMessages[i].run = r}
    IN /\ repairs[r].pc = "failed" <=> EventsOf(t, "error") /= <<>>
       /\ \A i \in 1..Len(t) :
            t[i].ev = "error" =>
              /\ i = Len(t)
              /\ t[i].stage = Len(EventsOf(t, "call"))
              /\ \A j \in 1..Len(t), h \in 1..Len(t) :
                   (t[j].ev = "call" /\ t[h].ev = "call" /\ j /= h)
                     => t[j].stage /= t[h].stage
              /\ EventsOf(t, "open") = <<>>
              /\ activeTextEditor /= Untitled[r]
              /\ Cardinality(shownErrors) = 1
              /\ \A m \in shownErrors :
                   EndsWith(errorMessages[m].text, t[i].message)

\* A repair failed at its second stage after its first stage had answered.
C2_Witness ==
  \E r \in 1..Len(repairs) :
    LET t == repairs[r].trace
    IN /\ repairs[r].pc = "failed"
       /\ t[Len(t)].ev = "error"
       /\ t[Len(t)].stage = 2
       /\ EventsOf(t, "response") /= <<>>

\* ------------------------------------- the repair command: no target

\* The messages the repair command has shown for invocation r.
ShownBy(r) ==
  {i \in 1..Len(errorMessages) :
     errorMessages[i].from = "repair" /\ errorMessages[i].run = r}

\* A step in which the command is invoked with no focused editor.
InvokedWithoutEditor ==
  /\ Len(repairs') = Len(repairs) + 1
  /\ activeTextEditor = NoEditor

\* C12: invoked with no focused editor, the command shows exactly one message
\* ("No active editor found.") and does nothing else, then or later: it
\* reports no progress, calls the model for no stage and opens no document,
\* and the step changes nothing of the program's state (buffer, diagnostics,
\* focus, analysis runs, other repairs).
C12_NoEditorIsNoOp ==
  /\ [](\A r \in 1..Len(repairs) :
          repairs[r].document = NoEditor =>
            /\ repairs[r].trace = <<>>
            /\ repairs[r].pc = "noEditor"
            /\ Cardinality(ShownBy(r)) = 1
            /\ \A i \in ShownBy(r) :
                 errorMessages[i].text = <<"No active editor found.">>)
  /\ [][InvokedWithoutEditor =>
          /\ Len(errorMessages') = Len(errorMessages) + 1
          /\ SubSeq(repairs', 1, Len(repairs)) = repairs
          /\ UNCHANGED <<linterOutput, diagnosticCollection, activeTextEditor,
                         runs, createLog, bufferFrom>>]_vars

\* The command was invoked with no focused editor while an earlier repair is
\* waiting for the model.
C12_Witness ==
  \E r \in 1..Len(repairs), q \in 1..Len(repairs) :
    /\ q < r
    /\ repairs[q].pc = "chat"
    /\ repairs[r].pc = "noEditor"
    /\ ShownBy(r) /= {}

\* ------------------------------------ the repair command: progress labels

\* C18 as stated: in every repair run the label of stage i is reported before
\* stage i's call of the model and after stage i-1's response; one label per
\* started stage, in stage order, and none for a stage that is not started.
C18_LabelBeforeEachStage ==
  \A r \in 1..Len(repairs) :
    LET t == repairs[r].trace
        calls == EventsOf(t, "call")
        reports == EventsOf(t, "report")
    IN /\ Len(reports) = Len(calls)
       /\ \A k \in 1..Len(reports) :
            /\ reports[k].stage = k
            /\ reports[k].label = Stages(build)[k].label
            /\ reports[k].label /= NoLabel
       /\ \A i \in 1..Len(t) :
            /\ t[i].ev = "call" =>
                 i > 1 /\ t[i - 1].ev = "report" /\ t[i - 1].stage = t[i].stage
            /\ t[i].ev = "report" =>
                 /\ i < Len(t) /\ t[i + 1].ev = "call"
                 /\ i = 1 \/ (t[i - 1].ev = "response"
                              /\ t[i - 1].stage = t[i].stage - 1)

\* What holds: the same of the two versions that report progress.
C18_LabelsWhereReported == build /= "original" => C18_LabelBeforeEachStage

\* ------------------------------------ the repair command: state machine

\* One step of repair r, from its record a to its record b.
RepairStep(a, b) ==
  LET answered ==
        Len(EventsOf(b.trace, "response")) = Len(EventsOf(a.trace, "response")) + 1
      sameCalls == EventsOf(b.trace, "call") = EventsOf(a.trace, "call")
  IN \/ b = a
     \/ /\ a.pc = "chat" /\ b.pc = "chat"
        /\ b.stage = a.stage + 1
        /\ answered
        /\ Len(EventsOf(b.trace, "call")) = Len(EventsOf(a.trace, "call")) + 1
     \/ /\ a.pc = "chat" /\ b.pc = "opening"
        /\ a.stage = Len(Stages(build)) /\ b.stage = a.stage
        /\ answered /\ sameCalls
     \/ /\ a.pc = "chat" /\ b.pc = "failed"
        /\ b.stage = a.stage
        /\ Len(EventsOf(b.trace, "error")) = 1
        /\ EventsOf(a.trace, "error") = <<>>
        /\ sameCalls
     \/ /\ a.pc = "opening" /\ b.pc = "shown"
        /\ b.stage = a.stage
        /\ sameCalls

\* The run of repair r has ended: the result is shown, or the failure is.
Ended(r) == Len(repairs) >= r /\ repairs[r].pc \in {"shown", "failed"}

\* The transitions of every repair run: the safety half of C19, which also
\* holds of two runs interleaved (SpecRepair).
C19_Transitions ==
  [][/\ Len(repairs') >= Len(repairs)
     /\ \A r \in 1..Len(repairs) : RepairStep(repairs[r], repairs'[r])
     /\ \A r \in (Len(repairs) + 1)..Len(repairs') :
          \/ repairs'[r].pc = "noEditor"
          \/ /\ repairs'[r].pc = "chat"
             /\ repairs'[r].stage = 1
             /\ Len(EventsOf(repairs'[r].trace, "call")) = 1]_vars

\* C19: a repair run started with a focused editor goes from Idle to its
\* first stage; from a stage it goes to the next stage (the index grows by
\* exactly one), to Succeeded after the last, or to Failed; it never goes back
\* to Idle or to an earlier stage and is never aborted without an answer or an
\* error; once ended it calls the model no more; and if every call of the
\* model is answered or fails, the run ends in Succeeded or in Failed.
C19_RunsToCompletion ==
  /\ C19_Transitions
  /\ \A r \in 1..MaxRepairs :
       (Len(repairs) >= r /\ repairs[r].pc = "chat") ~> Ended(r)

\* A repair of v1 went through its three stages and its result is shown.
C19_Witness ==
  /\ build = "v1"
  /\ \E r \in 1..Len(repairs) :
       /\ repairs[r].pc = "shown"
       /\ repairs[r].stage = 3
       /\ Len(EventsOf(repairs[r].trace, "response")) = 3

\* Most invocations of the repair command in a behaviour of the fair
\* specification.
MaxFairRepairs == 1

\* The command is invoked, up to the bound of the fair specification.
InvokeFair ==
  /\ Len(repairs) < MaxFairRepairs
  /\ InvokeCommand

NextRepairFair ==
  \/ InvokeFair
  \/ \E id \in 1..MaxRepairs, content \in Responses : ChatResponds(id, content)
  \/ \E id \in 1..MaxRepairs, message \in ChatErrors : ChatFails(id, message)
  \/ \E id \in 1..MaxRepairs : OpenResult(id)
  \/ \E e \in Uris \cup {NoEditor} : ChangeActiveEditor(e)

\* The repair command with every call of the model answered or failing in
\* the end, and every result opened in the end.
SpecRepairFair ==
  /\ InitRepair /\ [][NextRepairFair]_vars
  /\ \A id \in 1..MaxRepairs :
       /\ WF_vars((\E content \in Responses : ChatResponds(id, content))
                    \/ (\E message \in ChatErrors : ChatFails(id, message)))
       /\ WF_vars(OpenResult(id))

\* --------------------- specification: analysis and repair interleaved

\* Most analysis runs and most invocations of the repair command in one
\* behaviour of the joint specification.
MaxJointRuns == 1

MaxJointRepairs == 1

\* A document is saved, up to the bound of the joint specification.
SaveJoint(d) ==
  /\ Len(runs) < MaxJointRuns
  /\ SaveDocument(d)

\* The command is invoked, up to the bound of the joint specification.
InvokeJoint ==
  /\ Len(repairs) < MaxJointRepairs
  /\ InvokeCommand

\* The two versions whose repair command has a stage that is given
\* linterOutput.
InitJoint ==
  /\ SysInit
  /\ build \in {"current", "v1"}
  /\ fin = <<>>
  /\ fout = NotRun

NextJoint ==
  \/ \E d \in PyDocs : SaveJoint(d)
  \/ \E r \in 1..MaxRuns, err \in ReadErrors : ReadFileError(r, err)
  \/ \E r \in 1..MaxRuns, o \in Outputs : ReadFileDone(r, o)
  \/ \E r \in 1..MaxRuns : StdoutData(r)
  \/ \E r \in 1..MaxRuns : StderrData(r)
  \/ \E r \in 1..MaxRuns : Close(r)
  \/ InvokeJoint
  \/ \E id \in 1..MaxRepairs, content \in Responses : ChatResponds(id, content)
  \/ \E id \in 1..MaxRepairs, message \in ChatErrors : ChatFails(id, message)
  \/ \E id \in 1..MaxRepairs : OpenResult(id)
  \/ \E e \in Uris \cup {NoEditor} : ChangeActiveEditor(e)

SpecJoint == InitJoint /\ [][NextJoint]_vars

\* The calls of the model that were given linterOutput, over all repairs.
LintCalls ==
  UNION {{repairs[r].trace[i] : i \in {j \in 1..Len(repairs[r].trace) :
                                         /\ repairs[r].trace[j].ev = "call"
                                         /\ repairs[r].trace[j].lint /= Omitted}}
         : r \in 1..Len(repairs)}

\* C22: under any interleaving of analysis runs with a repair run, the
\* linterOutput bound into the Pylint-fix stage's prompt is empty or the
\* complete stdout of one completed analysis run; it is never the buffer that
\* a run in flight is still accumulating.  (An empty text is let pass here
\* whatever the runs.)
C22_LintIsOneRunsOutput ==
  \A c \in LintCalls :
    \/ c.lint = <<>>
    \/ \E r \in 1..Len(c.runs) :
         /\ c.runs[r].state = "closed"
         /\ c.lint = c.runs[r].stdout

\* What holds: the text bound is the buffer as it stood when the stage was
\* called, and when no run was in flight and at most one had been started it
\* is that run's complete stdout.
C22_LintOfQuietAnalysis ==
  \A c \in LintCalls :
    (/\ Len(c.runs) <= 1
     /\ \A r \in 1..Len(c.runs) : c.runs[r].state \in {"closed", "failed"})
      => \/ c.lint = <<>>
         \/ \E r \in 1..Len(c.runs) :
              c.runs[r].state = "closed" /\ c.lint = c.runs[r].stdout

====
